---- MODULE Spec2Model ----
(***************************************************************************)
(* Model of the download orchestration of the webshare front-end           *)
(* (src/volumes/webshare/app.py) and of the session state of its remote    *)
(* client (src/volumes/webshare/webshare_api.py).                          *)
(*                                                                         *)
(* Threads of the program: the request handlers of Flask (download and     *)
(* download_progress), one download_file_background thread per accepted    *)
(* start request, one cleanup thread per completed download.  They share   *)
(* the dict active_downloads without any lock, so every statement that     *)
(* reads or writes the dict is a step of its own.                          *)
(*                                                                         *)
(* Specifications:                                                         *)
(*   Spec, FairSpec  the handlers and threads over the dict                *)
(*   FileSpec        the same threads with the files they write            *)
(*   StreamSpec      the chunk loop of one thread over longer streams      *)
(*   SessionSpec     the methods of WebshareAPI, call by call              *)
(*   PureSpec        hash_password, _format_file_size and the size parse   *)
(*                   of initiate_download on their inputs                  *)
(***************************************************************************)
EXTENDS Integers, FiniteSets, Sequences, TLC

\* ---------------------------------------------------------------- bounds
MaxWorkers == 2    \* download threads started in one run
MaxChunks == 2     \* chunks a stream delivers at most; also the largest
                   \* announced size (content-length), in chunk units

\* The file ids the requests name (opaque strings) ...
FileIds == {"a", "b"}
\* ... and the id of a request that names none (`if not file_id`, app.py:195)
NoFileId == ""

Workers == 1..MaxWorkers

\* The request-serving thread.  A start request changes the shared state only
\* by starting a thread after its test of the dict, and a thread that has not
\* run yet cannot be told from one started later, so a second serving thread
\* adds no behaviour of the dict or of the download threads.
Reqs == {"main"}

\* str(e) of the exceptions a worker can meet, by the step that raises them
NotLoggedInText == "Not logged in. Please login first."
FailureTexts ==
    { NotLoggedInText, "file_link failed", "makedirs failed", "GET failed",
      "chunk read failed", "disk write failed", "KeyError" }

VARIABLES
    active_downloads,  \* app.py:21  the dict fileId -> job record
    logged_in,         \* webshare_api.py:19
    token,             \* webshare_api.py:20 ("" stands for None or empty)
    worker,            \* the download_file_background threads
    cleanup,           \* the cleanup thread each worker may start
    req,               \* the request-handler threads
    call,              \* the call of a WebshareAPI method in progress
    files,             \* the files under DOWNLOAD_PATH: name -> length
    effects,           \* what each download thread did outside the dict
    pure               \* the last application of a pure function

vars ==
    <<active_downloads, logged_in, token, worker, cleanup, req, call, files,
      effects, pure>>

\* What the steps of the download orchestration leave alone when the file
\* system is not looked at.
elsewhere == <<call, files, effects, pure>>

\* ------------------------------------------------------- the job records
\* Of the keys of a record the model keeps status, progress, error and
\* finalSize; message, fileName, startTime, totalSize, downloadedSize and
\* filePath are written by the same steps and read by no step of the program.
\* A key a record does not hold is -1 (finalSize) or "" (error).
NoValue == 0 - 1

\* app.py:101-107
NewJob ==
    [ status |-> "downloading", progress |-> 0, error |-> "",
      finalSize |-> NoValue ]

\* app.py:179-185
ErrorJob(text) ==
    [ status |-> "error", progress |-> 0, error |-> text,
      finalSize |-> NoValue ]

Present(f) == f \in DOMAIN active_downloads

\* active_downloads[f] = job
Assign(f, job) ==
    [ x \in (DOMAIN active_downloads) \cup {f} |->
        IF x = f THEN job ELSE active_downloads[x] ]

\* del active_downloads[f]
Delete(f) ==
    [ x \in (DOMAIN active_downloads) \ {f} |-> active_downloads[x] ]

Min(a, b) == IF a <= b THEN a ELSE b

\* ChunkProgress without the cap of 90.
ChunkProgressNoCap(downloaded, total) ==
    10 + ((downloaded * 80) \div total)

\* app.py:148  min(90, 10 + int((downloaded_size / total_size) * 80))
ChunkProgress(downloaded, total) ==
    Min(90, 10 + ((downloaded * 80) \div total))

\* ------------------------------------------------------------ the threads
IdleWorker ==
    [ pc |-> "unused", fid |-> NoFileId, total_size |-> 0,
      downloaded_size |-> 0, remaining |-> 0, err |-> "",
      resolved |-> FALSE, wrote |-> "none" ]

IdleReq == [ pc |-> "idle", fid |-> NoFileId, resp |-> "none" ]

\* No method of the client has been called yet.  was is the session
\* (logged_in, token) at the start of the call, logged_once whether a login
\* call has returned {'success': True} before, answers the kinds of the
\* answers the requests of the call got.
IdleCall ==
    [ op |-> "none", pc |-> "idle", username |-> "", password |-> "",
      salt |-> "", credentials |-> <<>>, salt_requests |-> 0,
      login_requests |-> 0, requests |-> 0, answers |-> <<>>,
      result |-> "none", error |-> "",
      was |-> <<FALSE, "">>, logged_once |-> FALSE ]

\* The names start requests give the files (fileName, app.py:193)
FileNames == {"x.bin", "y.bin"}

\* No file written yet, no record with a filePath.
NoFiles == [ length |-> << >>, path |-> [f \in FileIds |-> ""] ]

\* A thread that has done nothing outside the dict: the file it is to write,
\* what it did, whether initiate_download refused it for want of a login.
NoEffects == [ file_name |-> "", did |-> {}, refused |-> FALSE ]

NoApplication ==
    [ fn |-> "none", arg |-> <<>>, applied |-> FALSE, result |-> <<>> ]

Active(w) == worker[w].pc \notin {"unused", "done", "failed"}
Stopped(w) == worker[w].pc \in {"done", "failed"}

Init ==
    /\ active_downloads = << >>
    /\ logged_in = FALSE
    /\ token = ""
    /\ worker = [w \in Workers |-> IdleWorker]
    /\ cleanup = [w \in Workers |-> "none"]
    /\ req = [r \in Reqs |-> IdleReq]
    /\ call = IdleCall
    /\ files = NoFiles
    /\ effects = [w \in Workers |-> NoEffects]
    /\ pure = NoApplication

\* ------------------------------------------------------------- the session
\* WebshareAPI.login as app.py calls it (at start-up, lines 32-41, and from
\* /api/login, which returns early when logged_in is already set).  A failed
\* login raises before line 61 and writes nothing.  token_elem.text is None
\* for an empty <token/> element: outcome "ok_empty".  No other thread can
\* tell the state between lines 61 and 62 from the state before the call
\* (initiate_download tests logged_in first), so the two writes are one step.
Login(outcome) ==
    /\ ~logged_in
    /\ \/ /\ outcome = "ok"
          /\ token' = "wst"
          /\ logged_in' = TRUE
       \/ /\ outcome = "ok_empty"
          /\ token' = ""
          /\ logged_in' = TRUE
       \/ /\ outcome = "failed"
          /\ UNCHANGED <<token, logged_in>>
    /\ UNCHANGED <<active_downloads, worker, cleanup, req>>

\* -------------------------------------------------- POST /api/download
\* The worker slot a new thread takes: the lowest unused one.
FreeWorker == CHOOSE w \in Workers :
    /\ worker[w].pc = "unused"
    /\ \A v \in Workers : worker[v].pc = "unused" => w <= v

\* DownloadCheck without the test of line 199: every request for an id starts
\* a thread.
DownloadCheckNoTest(r, f) ==
    /\ req[r].pc \in {"idle", "returned"}
    /\ \/ /\ f = NoFileId
          /\ req' = [req EXCEPT ![r] =
                [pc |-> "returned", fid |-> f, resp |-> "400"]]
       \/ /\ f # NoFileId
          /\ \E w \in Workers : worker[w].pc = "unused"
          /\ req' = [req EXCEPT ![r] =
                [pc |-> "spawn", fid |-> f, resp |-> "none"]]
    /\ UNCHANGED <<active_downloads, logged_in, token, worker, cleanup>>

\* app.py:191-199: read the request, test `file_id in active_downloads`.
DownloadCheck(r, f) ==
    /\ req[r].pc \in {"idle", "returned"}
    /\ \/ /\ f = NoFileId
          /\ req' = [req EXCEPT ![r] =
                [pc |-> "returned", fid |-> f, resp |-> "400"]]
       \/ /\ f # NoFileId
          /\ Present(f)
          /\ req' = [req EXCEPT ![r] =
                [pc |-> "report", fid |-> f, resp |-> "none"]]
       \/ /\ f # NoFileId
          /\ ~Present(f)
          /\ \E w \in Workers : worker[w].pc = "unused"
          /\ req' = [req EXCEPT ![r] =
                [pc |-> "spawn", fid |-> f, resp |-> "none"]]
    /\ UNCHANGED <<active_downloads, logged_in, token, worker, cleanup>>

\* app.py:200-205: the answer reads active_downloads[file_id] again; a record
\* deleted since the test raises KeyError, answered 500 (lines 221-223).
DownloadReport(r) ==
    /\ req[r].pc = "report"
    /\ req' = [req EXCEPT ![r].pc = "returned",
                          ![r].resp = IF Present(req[r].fid) THEN "already"
                                                             ELSE "500"]
    /\ UNCHANGED <<active_downloads, logged_in, token, worker, cleanup>>

\* app.py:207-219: start the thread and answer; nothing is written to
\* active_downloads here, the thread does it at line 101.
DownloadSpawn(r) ==
    /\ req[r].pc = "spawn"
    /\ \E w \in Workers : worker[w].pc = "unused"
    /\ worker' = [worker EXCEPT ![FreeWorker] =
            [IdleWorker EXCEPT !.pc = "spawned", !.fid = req[r].fid]]
    /\ req' = [req EXCEPT ![r].pc = "returned", ![r].resp = "started"]
    /\ UNCHANGED <<active_downloads, logged_in, token, cleanup>>

\* ------------------------------------- GET /api/download/progress/<id>
\* app.py:229: test; 234-238: 404 when absent.
ProgressCheck(r, f) ==
    /\ req[r].pc \in {"idle", "returned"}
    /\ f # NoFileId
    /\ req' = [req EXCEPT ![r] =
          IF Present(f)
          THEN [pc |-> "read", fid |-> f, resp |-> "none"]
          ELSE [pc |-> "returned", fid |-> f, resp |-> "404"]]
    /\ UNCHANGED <<active_downloads, logged_in, token, worker, cleanup>>

\* app.py:230-233: read the record; KeyError is answered 500 (240-242).
ProgressRead(r) ==
    /\ req[r].pc = "read"
    /\ req' = [req EXCEPT ![r].pc = "returned",
                          ![r].resp = IF Present(req[r].fid) THEN "job"
                                                             ELSE "500"]
    /\ UNCHANGED <<active_downloads, logged_in, token, worker, cleanup>>

\* ------------------------------------------- download_file_background
\* Raise without the handler of line 177: the exception ends the thread.
RaiseUncaught(w, text) ==
    worker' = [worker EXCEPT ![w].pc = "crashed", ![w].err = text]

\* An exception raised inside the try block (app.py:99-175): control goes to
\* the handler at line 177 with str(e) = text.
Raise(w, text) ==
    worker' = [worker EXCEPT ![w].pc = "except", ![w].err = text]

\* active_downloads[file_id][key] = value, for a record that is present
SetField(f, job) ==
    active_downloads' = Assign(f, job)

\* app.py:101-107: the thread's first statement registers the job.
Register(w) ==
    /\ worker[w].pc = "spawned"
    /\ active_downloads' = Assign(worker[w].fid, NewJob)
    /\ worker' = [worker EXCEPT ![w].pc = "resolve", ![w].wrote = "downloading"]
    /\ UNCHANGED <<logged_in, token, cleanup, req>>

\* Resolve without the login test of webshare_api.py:229: the request to
\* file_link is sent without a token.
ResolveNoLoginTest(w) ==
    /\ worker[w].pc = "resolve"
    /\ \/ worker' = [worker EXCEPT ![w].pc = "except",
                       ![w].err = "file_link failed", ![w].resolved = TRUE]
       \/ worker' = [worker EXCEPT ![w].pc = "mkdir", ![w].resolved = TRUE]
    /\ UNCHANGED <<active_downloads, logged_in, token, cleanup, req>>

\* app.py:110-115 with webshare_api.py:226-279: initiate_download raises when
\* the session is not logged in (line 229) and on every remote failure.
Resolve(w) ==
    /\ worker[w].pc = "resolve"
    /\ \/ /\ ~logged_in \/ token = ""
          /\ worker' = [worker EXCEPT ![w].pc = "except",
                           ![w].err = NotLoggedInText, ![w].resolved = TRUE]
       \/ /\ logged_in /\ token # ""
          /\ \/ worker' = [worker EXCEPT ![w].pc = "except",
                             ![w].err = "file_link failed", ![w].resolved = TRUE]
             \/ worker' = [worker EXCEPT ![w].pc = "mkdir", ![w].resolved = TRUE]
    /\ UNCHANGED <<active_downloads, logged_in, token, cleanup, req>>

\* app.py:118-125: makedirs, then message and progress = 5.  Writing a field
\* of a record that is no longer in the dict raises KeyError.
Connecting(w) ==
    /\ worker[w].pc = "mkdir"
    /\ \/ /\ Raise(w, "makedirs failed")
          /\ UNCHANGED active_downloads
       \/ /\ ~Present(worker[w].fid)
          /\ Raise(w, "KeyError")
          /\ UNCHANGED active_downloads
       \/ /\ Present(worker[w].fid)
          /\ SetField(worker[w].fid,
                [active_downloads[worker[w].fid] EXCEPT !.progress = 5])
          /\ worker' = [worker EXCEPT ![w].pc = "get"]
    /\ UNCHANGED <<logged_in, token, cleanup, req>>

\* app.py:130-138: GET the link as a stream, raise_for_status, total_size from
\* content-length (or the size initiate_download reported), progress = 10.
\* total and chunks are what the remote announces and what it delivers.
OpenStream(w, total, chunks) ==
    /\ worker[w].pc = "get"
    /\ \/ /\ Raise(w, "GET failed")
          /\ UNCHANGED active_downloads
       \/ /\ ~Present(worker[w].fid)
          /\ worker' = [worker EXCEPT ![w].pc = "except", ![w].err = "KeyError",
                           ![w].total_size = total, ![w].remaining = chunks]
          /\ UNCHANGED active_downloads
       \/ /\ Present(worker[w].fid)
          /\ SetField(worker[w].fid,
                [active_downloads[worker[w].fid] EXCEPT !.progress = 10])
          /\ worker' = [worker EXCEPT ![w].pc = "stream",
                           ![w].total_size = total, ![w].remaining = chunks]
    /\ UNCHANGED <<logged_in, token, cleanup, req>>

\* app.py:140-151: one turn of the chunk loop (a chunk is one unit long), or
\* its end when the stream is exhausted; chmod (153-158) cannot fail the
\* download.  The record is written only when total_size > 0.
ReadChunk(w) ==
    /\ worker[w].pc = "stream"
    /\ \/ /\ worker[w].remaining = 0
          /\ worker' = [worker EXCEPT ![w].pc = "final_status"]
          /\ UNCHANGED active_downloads
       \/ /\ worker[w].remaining > 0
          /\ \/ Raise(w, "chunk read failed")
             \/ Raise(w, "disk write failed")
          /\ UNCHANGED active_downloads
       \/ /\ worker[w].remaining > 0
          /\ worker[w].total_size = 0
          /\ worker' = [worker EXCEPT
                ![w].downloaded_size = worker[w].downloaded_size + 1,
                ![w].remaining = worker[w].remaining - 1]
          /\ UNCHANGED active_downloads
       \/ /\ worker[w].remaining > 0
          /\ worker[w].total_size > 0
          /\ ~Present(worker[w].fid)
          /\ worker' = [worker EXCEPT
                ![w].downloaded_size = worker[w].downloaded_size + 1,
                ![w].remaining = worker[w].remaining - 1,
                ![w].pc = "except", ![w].err = "KeyError"]
          /\ UNCHANGED active_downloads
       \/ /\ worker[w].remaining > 0
          /\ worker[w].total_size > 0
          /\ Present(worker[w].fid)
          /\ SetField(worker[w].fid,
                [active_downloads[worker[w].fid] EXCEPT !.progress =
                    ChunkProgress(worker[w].downloaded_size + 1,
                                  worker[w].total_size)])
          /\ worker' = [worker EXCEPT
                ![w].downloaded_size = worker[w].downloaded_size + 1,
                ![w].remaining = worker[w].remaining - 1]
    /\ UNCHANGED <<logged_in, token, cleanup, req>>

\* app.py:161
FinalStatus(w) ==
    /\ worker[w].pc = "final_status"
    /\ \/ /\ ~Present(worker[w].fid)
          /\ Raise(w, "KeyError")
          /\ UNCHANGED active_downloads
       \/ /\ Present(worker[w].fid)
          /\ SetField(worker[w].fid,
                [active_downloads[worker[w].fid] EXCEPT !.status = "completed"])
          /\ worker' = [worker EXCEPT ![w].pc = "final_progress",
                                      ![w].wrote = "completed"]
    /\ UNCHANGED <<logged_in, token, cleanup, req>>

\* app.py:162
FinalProgress(w) ==
    /\ worker[w].pc = "final_progress"
    /\ \/ /\ ~Present(worker[w].fid)
          /\ Raise(w, "KeyError")
          /\ UNCHANGED active_downloads
       \/ /\ Present(worker[w].fid)
          /\ SetField(worker[w].fid,
                [active_downloads[worker[w].fid] EXCEPT !.progress = 100])
          /\ worker' = [worker EXCEPT ![w].pc = "final_size"]
    /\ UNCHANGED <<logged_in, token, cleanup, req>>

\* app.py:163-165: message, filePath, finalSize
FinalSize(w) ==
    /\ worker[w].pc = "final_size"
    /\ \/ /\ ~Present(worker[w].fid)
          /\ Raise(w, "KeyError")
          /\ UNCHANGED active_downloads
       \/ /\ Present(worker[w].fid)
          /\ SetField(worker[w].fid,
                [active_downloads[worker[w].fid]
                    EXCEPT !.finalSize = worker[w].downloaded_size])
          /\ worker' = [worker EXCEPT ![w].pc = "start_cleanup"]
    /\ UNCHANGED <<logged_in, token, cleanup, req>>

\* The thread function returns: its local variables are gone.  What stays is
\* which file it was started for, whether it called initiate_download and the
\* last status it wrote.
Returned(wk, pc, wrote) ==
    [IdleWorker EXCEPT !.pc = pc, !.fid = wk.fid, !.resolved = wk.resolved,
                       !.wrote = wrote]

\* StartCleanup without line 175: the worker returns, no cleanup is started.
ReturnWithoutCleanup(w) ==
    /\ worker[w].pc = "start_cleanup"
    /\ worker' = [worker EXCEPT ![w] = Returned(worker[w], "done", worker[w].wrote)]
    /\ UNCHANGED <<active_downloads, logged_in, token, cleanup, req>>

\* app.py:167-175: start the cleanup thread; the worker returns.
StartCleanup(w) ==
    /\ worker[w].pc = "start_cleanup"
    /\ cleanup' = [cleanup EXCEPT ![w] = "sleeping"]
    /\ worker' = [worker EXCEPT ![w] = Returned(worker[w], "done", worker[w].wrote)]
    /\ UNCHANGED <<active_downloads, logged_in, token, req>>

\* Except without lines 179-185: the failure is logged, the record is left.
ExceptLogsOnly(w) ==
    /\ worker[w].pc = "except"
    /\ worker' = [worker EXCEPT ![w] = Returned(worker[w], "failed", worker[w].wrote)]
    /\ UNCHANGED <<active_downloads, logged_in, token, cleanup, req>>

\* app.py:177-185: the handler replaces the record by an error record.
Except(w) ==
    /\ worker[w].pc = "except"
    /\ active_downloads' = Assign(worker[w].fid, ErrorJob(worker[w].err))
    /\ worker' = [worker EXCEPT ![w] = Returned(worker[w], "failed", "error")]
    /\ UNCHANGED <<logged_in, token, cleanup, req>>

\* ------------------------------------------------------------- cleanup
\* app.py:171-172: the sleep is over; test `file_id in active_downloads`.
CleanupCheck(w) ==
    /\ cleanup[w] = "sleeping"
    /\ cleanup' = [cleanup EXCEPT ![w] =
            IF Present(worker[w].fid) THEN "deleting" ELSE "done"]
    /\ UNCHANGED <<active_downloads, logged_in, token, worker, req>>

\* app.py:173: del; a record another cleanup removed meanwhile raises
\* KeyError, which ends the thread.
CleanupDelete(w) ==
    /\ cleanup[w] = "deleting"
    /\ active_downloads' =
            IF Present(worker[w].fid) THEN Delete(worker[w].fid)
                                      ELSE active_downloads
    /\ cleanup' = [cleanup EXCEPT ![w] = "done"]
    /\ UNCHANGED <<logged_in, token, worker, req>>

\* ------------------------------------------------------ specifications
WorkerStep(w) ==
    \/ Register(w)
    \/ Resolve(w)
    \/ Connecting(w)
    \/ \E total \in 0..MaxChunks, chunks \in 0..MaxChunks :
            OpenStream(w, total, chunks)
    \/ ReadChunk(w)
    \/ FinalStatus(w)
    \/ FinalProgress(w)
    \/ FinalSize(w)
    \/ StartCleanup(w)
    \/ Except(w)

CleanupStep(w) == CleanupCheck(w) \/ CleanupDelete(w)

\* What a progress poll does not do: every step but the two of the poll,
\* which read the dict and write nothing the other threads read.
Running ==
    \/ \E outcome \in {"ok", "ok_empty", "failed"} :
            Login(outcome) /\ UNCHANGED elsewhere
    \/ \E r \in Reqs, f \in FileIds \cup {NoFileId} :
            DownloadCheck(r, f) /\ UNCHANGED elsewhere
    \/ \E r \in Reqs : DownloadReport(r) /\ UNCHANGED elsewhere
    \/ \E r \in Reqs : DownloadSpawn(r) /\ UNCHANGED elsewhere
    \/ \E w \in Workers : Register(w) /\ UNCHANGED elsewhere
    \/ \E w \in Workers : Resolve(w) /\ UNCHANGED elsewhere
    \/ \E w \in Workers : Connecting(w) /\ UNCHANGED elsewhere
    \/ \E w \in Workers, total \in 0..MaxChunks, chunks \in 0..MaxChunks :
            OpenStream(w, total, chunks) /\ UNCHANGED elsewhere
    \/ \E w \in Workers : ReadChunk(w) /\ UNCHANGED elsewhere
    \/ \E w \in Workers : FinalStatus(w) /\ UNCHANGED elsewhere
    \/ \E w \in Workers : FinalProgress(w) /\ UNCHANGED elsewhere
    \/ \E w \in Workers : FinalSize(w) /\ UNCHANGED elsewhere
    \/ \E w \in Workers : StartCleanup(w) /\ UNCHANGED elsewhere
    \/ \E w \in Workers : Except(w) /\ UNCHANGED elsewhere
    \/ \E w \in Workers : CleanupCheck(w) /\ UNCHANGED elsewhere
    \/ \E w \in Workers : CleanupDelete(w) /\ UNCHANGED elsewhere

Polling ==
    \/ \E r \in Reqs, f \in FileIds :
            ProgressCheck(r, f) /\ UNCHANGED elsewhere
    \/ \E r \in Reqs : ProgressRead(r) /\ UNCHANGED elsewhere

Next == Running \/ Polling

Spec == Init /\ [][Next]_vars

\* Every started thread is scheduled again and again, and every remote call
\* and chunk read returns: weak fairness on the steps of the download and
\* cleanup threads.  Requests arrive or not; they get no fairness.  The
\* progress polls are left out: they change req alone, which no fair step
\* reads.
FairSpec ==
    /\ Init /\ [][Running]_vars
    /\ \A w \in Workers :
            /\ WF_vars(WorkerStep(w) /\ UNCHANGED elsewhere)
            /\ WF_vars(CleanupStep(w) /\ UNCHANGED elsewhere)

\* ====================================================== the remote client
\* The methods of WebshareAPI (webshare_api.py), call by call.  One caller:
\* a call starts when the last one has returned.  The remote service may
\* answer anything to any request.
Users == {"alice", "bob"}
Passwords == {"pw1", "pw2"}
\* Salts a salt response can carry: two md5_crypt takes, one it refuses
\* (longer than 8 characters).
ValidSalts == {"Xy12ab..", "0123abcd"}
InvalidSalts == {"a+salt+too+long"}
\* Texts of the token element of a login response; "" is the empty element,
\* whose text is None.
Tokens == {"wst", "wst2"}

\* How a request can end badly: "network" is a RequestException or an HTTP
\* error status (raise_for_status), "malformed" a body ET.fromstring refuses,
\* "not_ok" a status element that is missing or not OK.
Failures == {"network", "malformed", "not_ok"}
SaltResponses ==
    [kind : Failures \cup {"no_salt"}, text : {""}]
        \cup [kind : {"ok"}, text : ValidSalts \cup InvalidSalts]
LoginResponses ==
    [kind : Failures \cup {"no_token"}, text : {""}]
        \cup [kind : {"ok"}, text : Tokens \cup {""}]

\* The hash functions are fixed functions of their input; the model keeps
\* what they were applied to.  md5_crypt gives "$1$<salt>$<checksum>".
md5_crypt(password, salt) == "$1$" \o salt \o "$md5crypt(" \o password \o ")"
sha1_hexdigest(text) == "sha1(" \o text \o ")"
md5_hexdigest(text) == "md5(" \o text \o ")"

\* hash_password with the digest taken over the md5_crypt hash itself.
hash_password_of_crypt(username, password, salt) ==
    LET md5_hash == md5_crypt(password, salt)
        password_hash == sha1_hexdigest(md5_hash)
        digest_string == username \o ":Webshare:" \o md5_hash
        digest == md5_hexdigest(digest_string)
    IN  <<password_hash, digest>>

\* webshare_api.py:113-130, for a salt md5_crypt takes
hash_password(username, password, salt) ==
    LET md5_hash == md5_crypt(password, salt)
        password_hash == sha1_hexdigest(md5_hash)
        digest_string == username \o ":Webshare:" \o password_hash
        digest == md5_hexdigest(digest_string)
    IN  <<password_hash, digest>>

orchestration ==
    <<active_downloads, worker, cleanup, req, files, effects, pure>>

CallIdle == call.pc \in {"idle", "returned"}

\* The record of a call that starts now.
StartCall(op) ==
    [IdleCall EXCEPT !.op = op, !.was = <<logged_in, token>>,
                     !.logged_once = call.logged_once]

\* raise Exception(text): the call c ends with the error.
Fail(c, text) ==
    [c EXCEPT !.pc = "returned", !.result = "error", !.error = text]

\* The call has received the answer kind to a request.
Answered(c, kind) == [c EXCEPT !.answers = Append(@, kind)]

\* login(username, password), webshare_api.py:22-28
LoginCall(username, password) ==
    /\ CallIdle
    /\ call' = [StartCall("login") EXCEPT !.pc = "get_salt",
                    !.username = username, !.password = password]
    /\ UNCHANGED <<logged_in, token>>
    /\ UNCHANGED orchestration

\* LoginGetSalt that sends the salt request once more after a network
\* failure.
LoginGetSaltRetries(response) ==
    /\ call.op = "login" /\ call.pc = "get_salt"
    /\ LET sent == Answered([call EXCEPT !.salt_requests = @ + 1],
                            response.kind)
       IN  call' = IF response.kind = "ok"
                   THEN [sent EXCEPT !.pc = "hash_password",
                                     !.salt = response.text]
                   ELSE IF response.kind = "network" /\ call.salt_requests = 0
                   THEN sent
                   ELSE Fail(sent, "Failed to get salt")
    /\ UNCHANGED <<logged_in, token>>
    /\ UNCHANGED orchestration

\* get_salt, webshare_api.py:88-111: one POST; every failure is raised as
\* "Failed to get salt: ..." and ends login at line 84.
LoginGetSalt(response) ==
    /\ call.op = "login" /\ call.pc = "get_salt"
    /\ LET sent == Answered([call EXCEPT !.salt_requests = @ + 1],
                            response.kind)
       IN  call' = IF response.kind = "ok"
                   THEN [sent EXCEPT !.pc = "hash_password",
                                     !.salt = response.text]
                   ELSE Fail(sent, "Failed to get salt")
    /\ UNCHANGED <<logged_in, token>>
    /\ UNCHANGED orchestration

\* webshare_api.py:32 and 113-130: md5_crypt raises on a salt it refuses.
LoginHash ==
    /\ call.op = "login" /\ call.pc = "hash_password"
    /\ call' = IF call.salt \in ValidSalts
               THEN [call EXCEPT !.pc = "post_login",
                        !.credentials =
                            hash_password(call.username, call.password,
                                          call.salt)]
               ELSE Fail(call, "Failed to hash password")
    /\ UNCHANGED <<logged_in, token>>
    /\ UNCHANGED orchestration

\* str(e) of the exception lines 42-82 raise on a login response
LoginFailureText(kind) ==
    CASE kind = "network" -> "Network error"
      [] kind = "malformed" -> "Invalid server response"
      [] kind = "not_ok" -> "status not OK"
      [] kind = "no_token" -> "Login successful but no token received"

\* LoginPost that takes status OK for a login, token element or not.
LoginPostTrustsStatus(response) ==
    /\ call.op = "login" /\ call.pc = "post_login"
    /\ LET sent == Answered([call EXCEPT !.login_requests = @ + 1],
                            response.kind)
       IN  \/ /\ response.kind \in {"ok", "no_token"}
              /\ token' = response.text
              /\ logged_in' = TRUE
              /\ call' = [sent EXCEPT !.pc = "returned", !.result = "ok",
                                      !.logged_once = TRUE]
           \/ /\ response.kind \notin {"ok", "no_token"}
              /\ call' = Fail(sent, LoginFailureText(response.kind))
              /\ UNCHANGED <<logged_in, token>>
    /\ UNCHANGED orchestration

\* LoginPost that logs the session out when the login fails.
LoginPostClearsOnFailure(response) ==
    /\ call.op = "login" /\ call.pc = "post_login"
    /\ LET sent == Answered([call EXCEPT !.login_requests = @ + 1],
                            response.kind)
       IN  \/ /\ response.kind = "ok"
              /\ token' = response.text
              /\ logged_in' = TRUE
              /\ call' = [sent EXCEPT !.pc = "returned", !.result = "ok",
                                      !.logged_once = TRUE]
           \/ /\ response.kind # "ok"
              /\ call' = Fail(sent, LoginFailureText(response.kind))
              /\ token' = ""
              /\ logged_in' = FALSE
    /\ UNCHANGED orchestration

\* webshare_api.py:35-82: one POST.  Status OK with a token element stores
\* the text of the element (line 61; None, here "", when it is empty) and
\* sets logged_in (line 62); no reader of the session can tell the state
\* between the two lines from the state before the call.  Every other answer
\* raises before line 61.
LoginPost(response) ==
    /\ call.op = "login" /\ call.pc = "post_login"
    /\ LET sent == Answered([call EXCEPT !.login_requests = @ + 1],
                            response.kind)
       IN  \/ /\ response.kind = "ok"
              /\ token' = response.text
              /\ logged_in' = TRUE
              /\ call' = [sent EXCEPT !.pc = "returned", !.result = "ok",
                                      !.logged_once = TRUE]
           \/ /\ response.kind # "ok"
              /\ call' = Fail(sent, LoginFailureText(response.kind))
              /\ UNCHANGED <<logged_in, token>>
    /\ UNCHANGED orchestration

\* The test that opens search and initiate_download
\* (`if not self.logged_in or not self.token`), then the request.
CheckedCall(op) ==
    /\ CallIdle
    /\ call' = IF ~logged_in \/ token = ""
               THEN Fail(StartCall(op), NotLoggedInText)
               ELSE [StartCall(op) EXCEPT !.pc = "post"]
    /\ UNCHANGED <<logged_in, token>>
    /\ UNCHANGED orchestration

\* The one POST of search and of initiate_download, and its answer.
PostOnce(op, kind) ==
    /\ call.op = op /\ call.pc = "post"
    /\ LET sent == Answered([call EXCEPT !.requests = @ + 1], kind)
       IN  call' = IF kind = "ok"
                   THEN [sent EXCEPT !.pc = "returned", !.result = "ok"]
                   ELSE Fail(sent, kind)
    /\ UNCHANGED <<logged_in, token>>
    /\ UNCHANGED orchestration

\* webshare_api.py:132-172
Search == CheckedCall("search")
SearchPost(kind) == PostOnce("search", kind)

\* webshare_api.py:226-279
InitiateDownload == CheckedCall("initiate_download")
FileLinkPost(kind) == PostOnce("initiate_download", kind)

SessionNext ==
    \/ \E username \in Users, password \in Passwords :
            LoginCall(username, password)
    \/ \E response \in SaltResponses : LoginGetSalt(response)
    \/ LoginHash
    \/ \E response \in LoginResponses : LoginPost(response)
    \/ Search
    \/ \E kind \in Failures \cup {"ok"} : SearchPost(kind)
    \/ InitiateDownload
    \/ \E kind \in Failures \cup {"ok"} : FileLinkPost(kind)

SessionSpec == Init /\ [][SessionNext]_vars

\* ===================================================== the pure functions
\* hash_password and _format_file_size, applied to inputs drawn at the start.
\* A size is a natural number written in base 1024, lowest digit first and
\* no zero as highest digit (<<0>> is zero): Python integers have no upper
\* bound, and the sizes the units change at are the powers of 1024.
MaxDigits == 7
SizeDigits == {0, 1, 1023}
Sizes ==
    {<<0>>} \cup
    UNION { { s \in [1..n -> SizeDigits] : s[n] # 0 } : n \in 1..MaxDigits }

\* a >= b for two sizes: the longer one, or the one with the larger digit at
\* the highest place they differ at
RECURSIVE AtLeast(_, _)
AtLeast(a, b) ==
    IF Len(a) # Len(b) THEN Len(a) > Len(b)
    ELSE IF Len(a) = 0 THEN TRUE
    ELSE IF a[Len(a)] # b[Len(b)] THEN a[Len(a)] > b[Len(b)]
    ELSE AtLeast(SubSeq(a, 1, Len(a) - 1), SubSeq(b, 1, Len(b) - 1))

\* 1024.0, webshare_api.py:340-341
Kilo == <<0, 1>>

\* webshare_api.py:338
size_names == <<"B", "KB", "MB", "GB", "TB">>

\* size_bytes /= 1024.0 on the whole part of a number: the lowest digit
\* moves behind the point.  The division is exact, 1024 being a power of two.
Shift(whole) == IF Len(whole) = 1 THEN <<0>> ELSE Tail(whole)

\* Scale with > for >= in the test of the loop.
RECURSIVE ScaleStrict(_, _, _)
ScaleStrict(whole, fraction, i) ==
    IF /\ AtLeast(whole, Kilo)
       /\ ~(whole = Kilo /\ \A k \in DOMAIN fraction : fraction[k] = 0)
       /\ i < Len(size_names) - 1
    THEN ScaleStrict(Shift(whole), <<Head(whole)>> \o fraction, i + 1)
    ELSE <<whole, fraction, i>>

\* The loop of lines 340-342 entered with i and the number whose whole part
\* is whole and whose digits behind the point are fraction (highest first).
\* The number is at least 1024.0 exactly when its whole part is.
RECURSIVE Scale(_, _, _)
Scale(whole, fraction, i) ==
    IF AtLeast(whole, Kilo) /\ i < Len(size_names) - 1
    THEN Scale(Shift(whole), <<Head(whole)>> \o fraction, i + 1)
    ELSE <<whole, fraction, i>>

\* webshare_api.py:333-344.  The text returned is the number (whole part and
\* digits behind the point) printed with `decimals` decimals, a blank and
\* the unit: '0 B' for a size that is zero, f"{size_bytes:.1f} {unit}" else.
format_file_size(size_bytes) ==
    IF size_bytes = <<0>>
    THEN [ whole |-> <<0>>, fraction |-> <<>>, decimals |-> 0, unit |-> "B" ]
    ELSE LET scaled == Scale(size_bytes, <<>>, 0)
         IN  [ whole |-> scaled[1], fraction |-> scaled[2], decimals |-> 1,
               unit |-> size_names[scaled[3] + 1] ]

\* The size field of a file_link answer, webshare_api.py:250-258.  A field is
\* the result of root.find('size'): no element (found = FALSE), an element
\* without text (text is None) or an element with a text of 1..MaxSizeLen
\* characters.  Characters are named: three ASCII digits, the Arabic-Indic
\* digit three (a decimal digit for Python), the superscript two (a digit for
\* str.isdigit, no decimal digit for int), and three characters that are no
\* digit for either.
MaxSizeLen == 3
AsciiDigits == {"0", "1", "9"}
DecimalDigits == AsciiDigits \cup {"arabic_3"}
IsdigitCharacters == DecimalDigits \cup {"superscript_2"}
Characters == IsdigitCharacters \cup {"a", "-", " "}

SizeTexts ==
    UNION {[1..n -> Characters] : n \in 1..MaxSizeLen}

SizeFields ==
    {[found |-> FALSE, is_none |-> TRUE, chars |-> << >>],
     [found |-> TRUE, is_none |-> TRUE, chars |-> << >>]}
    \cup [found : {TRUE}, is_none : {FALSE}, chars : SizeTexts]

\* the decimal value of a character, for int()
decimal(c) ==
    CASE c = "0" -> 0
      [] c = "1" -> 1
      [] c = "9" -> 9
      [] c = "arabic_3" -> 3

\* str.isdigit(): a non-empty text of characters that are digits
isdigit(s) ==
    /\ Len(s) > 0
    /\ \A k \in 1..Len(s) : s[k] \in IsdigitCharacters

\* str.strip() of the spaces, as int() does before it reads the number
RECURSIVE lstrip(_)
lstrip(s) ==
    IF Len(s) > 0 /\ Head(s) = " " THEN lstrip(Tail(s)) ELSE s

RECURSIVE rstrip(_)
rstrip(s) ==
    IF Len(s) > 0 /\ s[Len(s)] = " "
    THEN rstrip(SubSeq(s, 1, Len(s) - 1))
    ELSE s

\* the number read from decimal digits, most significant first
RECURSIVE digits_value(_, _)
digits_value(s, acc) ==
    IF Len(s) = 0 THEN acc
    ELSE digits_value(Tail(s), acc * 10 + decimal(Head(s)))

\* int(text): spaces around are dropped, one sign may lead, the rest is one
\* or more decimal digits; anything else raises ValueError.
int(s) ==
    LET stripped == rstrip(lstrip(s))
        signed == Len(stripped) > 0 /\ Head(stripped) = "-"
        body == IF signed THEN Tail(stripped) ELSE stripped
    IN IF Len(body) > 0 /\ \A k \in 1..Len(body) : body[k] \in DecimalDigits
       THEN [raised |-> "none",
             value |-> IF signed THEN 0 - digits_value(body, 0)
                       ELSE digits_value(body, 0)]
       ELSE [raised |-> "ValueError", value |-> 0]

\* line 252: the text of the element, '0' without an element
size_text(field) ==
    IF field.found
    THEN [is_none |-> field.is_none, chars |-> field.chars]
    ELSE [is_none |-> FALSE, chars |-> <<"0">>]

\* lines 254-258: the except clause turns ValueError and AttributeError into
\* a size of 0; any other exception leaves the call.
Caught(attempt) ==
    IF attempt.raised \in {"ValueError", "AttributeError"}
    THEN [raised |-> "none", value |-> 0]
    ELSE attempt

\* lines 252-258 without the isdigit test of line 255
file_size_int_only(field) ==
    LET text == size_text(field)
    IN Caught(IF ~text.is_none /\ Len(text.chars) > 0
              THEN int(text.chars)
              ELSE [raised |-> "none", value |-> 0])

\* lines 252-258: file_size and the exception the lines let out
file_size(field) ==
    LET text == size_text(field)
    IN Caught(IF ~text.is_none /\ Len(text.chars) > 0 /\ isdigit(text.chars)
              THEN int(text.chars)
              ELSE [raised |-> "none", value |-> 0])

PureInputs ==
    [ fn : {"hash_password"},
      arg : Users \X Passwords \X ValidSalts,
      applied : {FALSE}, result : {<<>>} ]
    \cup [ fn : {"format_file_size"}, arg : Sizes,
           applied : {FALSE}, result : {<<>>} ]
    \cup [ fn : {"file_size"}, arg : SizeFields,
           applied : {FALSE}, result : {<<>>} ]

PureInit ==
    /\ active_downloads = << >>
    /\ logged_in = FALSE
    /\ token = ""
    /\ worker = [w \in Workers |-> IdleWorker]
    /\ cleanup = [w \in Workers |-> "none"]
    /\ req = [r \in Reqs |-> IdleReq]
    /\ call = IdleCall
    /\ files = NoFiles
    /\ effects = [w \in Workers |-> NoEffects]
    /\ pure \in PureInputs

rest ==
    <<active_downloads, logged_in, token, worker, cleanup, req, call, files,
      effects>>

ApplyHashPassword ==
    /\ pure.fn = "hash_password" /\ ~pure.applied
    /\ pure' = [pure EXCEPT !.applied = TRUE, !.result =
                    hash_password(pure.arg[1], pure.arg[2], pure.arg[3])]
    /\ UNCHANGED rest

ApplyFormatFileSize ==
    /\ pure.fn = "format_file_size" /\ ~pure.applied
    /\ pure' = [pure EXCEPT !.applied = TRUE,
                            !.result = format_file_size(pure.arg)]
    /\ UNCHANGED rest

ApplyFileSize ==
    /\ pure.fn = "file_size" /\ ~pure.applied
    /\ pure' = [pure EXCEPT !.applied = TRUE,
                            !.result = file_size(pure.arg)]
    /\ UNCHANGED rest

PureNext == ApplyHashPassword \/ ApplyFormatFileSize \/ ApplyFileSize

PureSpec == PureInit /\ [][PureNext]_vars

\* ==================================================== the file system
\* What the download threads do outside the dict: the request to file_link,
\* makedirs, the GET of the stream, and the file they write.  A thread writes
\* the file DOWNLOAD_PATH/file_name, file_name being the fileName of the
\* start request (or the name the remote gives); two requests can name the
\* same file.  The length of a file counts chunks.
Max(a, b) == IF a >= b THEN a ELSE b

\* What the step thread w takes does outside the dict.  initiate_download
\* posts unless its login test raises (webshare_api.py:229); makedirs is
\* line 118; the GET of line 130 is sent whatever the answer, and the file is
\* opened (line 140) once lines 136-138 have written the record; a chunk read
\* is written at line 143.
Did(w) ==
    LET was == worker[w]
        now == worker'[w]
    IN  CASE was.pc = "resolve" ->
                IF now.pc = "except" /\ now.err = NotLoggedInText
                THEN {} ELSE {"file_link"}
          [] was.pc = "mkdir" ->
                IF now.pc = "except" /\ now.err = "makedirs failed"
                THEN {} ELSE {"makedirs"}
          [] was.pc = "get" ->
                IF now.pc = "stream" THEN {"get", "open"} ELSE {"get"}
          [] was.pc = "stream" ->
                IF now.downloaded_size = was.downloaded_size + 1
                THEN {"write"} ELSE {}
          [] OTHER -> {}

\* open(file_path, 'wb') creates the file or cuts it to length 0; f.write
\* puts the chunk at the offset of this thread, downloaded_size chunks in,
\* whatever other threads did to the file meanwhile.
Written(w) ==
    LET name == effects[w].file_name
        old == IF name \in DOMAIN files.length THEN files.length[name] ELSE 0
        new == IF "open" \in Did(w) THEN 0
               ELSE Max(old, worker'[w].downloaded_size)
    IN  IF Did(w) \cap {"open", "write"} = {}
        THEN files.length
        ELSE [n \in (DOMAIN files.length) \cup {name} |->
                 IF n = name THEN new ELSE files.length[n]]

\* The filePath of the record of an id: written at line 164 with the path of
\* the thread, gone when the record is replaced (lines 101 and 179).
Recorded(w) ==
    LET f == worker[w].fid
    IN  IF worker[w].pc \in {"spawned", "except"}
        THEN [files.path EXCEPT ![f] = ""]
        ELSE IF worker[w].pc = "final_size"
                  /\ worker'[w].pc = "start_cleanup"
        THEN [files.path EXCEPT ![f] = effects[w].file_name]
        ELSE files.path

\* The step of thread w, seen from the file system.
FileStep(w) ==
    /\ effects' = [effects EXCEPT
            ![w].did = @ \cup Did(w),
            ![w].refused = @ \/ ( /\ worker[w].pc = "resolve"
                                  /\ worker'[w].pc = "except"
                                  /\ worker'[w].err = NotLoggedInText )]
    /\ files' = [length |-> Written(w), path |-> Recorded(w)]

Outside(w) == FileStep(w) /\ UNCHANGED <<call, pure>>

\* app.py:193 and 208-212: the thread is started with the fileName of the
\* request.
NameThread(w, name) ==
    effects' = [effects EXCEPT ![w].file_name = name]

FileNext ==
    \/ \E outcome \in {"ok", "ok_empty", "failed"} :
            Login(outcome) /\ UNCHANGED elsewhere
    \/ \E r \in Reqs, f \in FileIds \cup {NoFileId} :
            DownloadCheck(r, f) /\ UNCHANGED elsewhere
    \/ \E r \in Reqs : DownloadReport(r) /\ UNCHANGED elsewhere
    \/ \E r \in Reqs, name \in FileNames :
            /\ DownloadSpawn(r)
            /\ NameThread(FreeWorker, name)
            /\ UNCHANGED <<call, files, pure>>
    \/ \E w \in Workers : Register(w) /\ Outside(w)
    \/ \E w \in Workers : Resolve(w) /\ Outside(w)
    \/ \E w \in Workers : Connecting(w) /\ Outside(w)
    \/ \E w \in Workers, total \in 0..MaxChunks, chunks \in 0..MaxChunks :
            OpenStream(w, total, chunks) /\ Outside(w)
    \/ \E w \in Workers : ReadChunk(w) /\ Outside(w)
    \/ \E w \in Workers : FinalStatus(w) /\ Outside(w)
    \/ \E w \in Workers : FinalProgress(w) /\ Outside(w)
    \/ \E w \in Workers : FinalSize(w) /\ Outside(w)
    \/ \E w \in Workers : StartCleanup(w) /\ Outside(w)
    \/ \E w \in Workers : Except(w) /\ Outside(w)
    \/ \E w \in Workers : CleanupCheck(w) /\ UNCHANGED elsewhere
    \/ \E w \in Workers : CleanupDelete(w) /\ UNCHANGED elsewhere

FileSpec == Init /\ [][FileNext]_vars

\* ============================================== one stream, chunk by chunk
\* The chunk loop of one download thread over longer streams than Spec
\* follows: sizes and chunk counts that make the quotient of line 148 a
\* fraction and the cap of 90 bite.
MaxTotal == 7      \* largest announced size (content-length), in chunks
MaxStream == 9     \* largest number of chunks the stream delivers

\* Thread 1 enters the loop of line 141 for file "a": the session is logged
\* in, the start request was answered, the record stands at progress 10
\* (line 137), total_size is what the remote announced.
StreamInit ==
    /\ active_downloads = [f \in {"a"} |-> [NewJob EXCEPT !.progress = 10]]
    /\ logged_in = TRUE
    /\ token = "wst"
    /\ \E total \in 0..MaxTotal, chunks \in 0..MaxStream :
          worker = [w \in Workers |->
              IF w = 1
              THEN [IdleWorker EXCEPT !.pc = "stream", !.fid = "a",
                        !.total_size = total, !.remaining = chunks,
                        !.resolved = TRUE, !.wrote = "downloading"]
              ELSE IdleWorker]
    /\ cleanup = [w \in Workers |-> "none"]
    /\ req = [r \in Reqs |->
                [pc |-> "returned", fid |-> "a", resp |-> "started"]]
    /\ call = IdleCall
    /\ files = NoFiles
    /\ effects = [w \in Workers |-> NoEffects]
    /\ pure = NoApplication

StreamNext ==
    \/ \E w \in Workers : ReadChunk(w) /\ UNCHANGED elsewhere
    \/ \E w \in Workers : FinalStatus(w) /\ UNCHANGED elsewhere
    \/ \E w \in Workers : FinalProgress(w) /\ UNCHANGED elsewhere
    \/ \E w \in Workers : FinalSize(w) /\ UNCHANGED elsewhere
    \/ \E w \in Workers : Except(w) /\ UNCHANGED elsewhere

StreamSpec == StreamInit /\ [][StreamNext]_vars

\* ================================================================ claims
WorkersOf(f) == {w \in Workers : worker[w].fid = f}
ActiveWorkersOf(f) == {w \in WorkersOf(f) : Active(w)}
Status(f) == active_downloads[f].status
Progress(f) == active_downloads[f].progress

\* C1: at any time at most one download thread is active for a file id, so
\* initiate_download is called once per id while a download of it is running.
C1_AtMostOneActiveWorkerPerFile ==
    \A f \in FileIds :
        /\ Cardinality(ActiveWorkersOf(f)) <= 1
        /\ Cardinality({w \in WorkersOf(f) : worker[w].resolved}) <= 1
              \/ \E w \in WorkersOf(f) : Stopped(w)

\* C2: once a start request for an id without a record has been answered
\* "Download started", the id has a record until its download has ended.
C2_StartedJobIsRegistered ==
    \A r \in Reqs :
        ( /\ req[r].pc = "returned"
          /\ req[r].resp = "started"
          /\ \A w \in WorkersOf(req[r].fid) : Active(w) )
        => Present(req[r].fid)

C4_ProgressNeverDecreases ==
    [][ \A f \in FileIds :
          (f \in DOMAIN active_downloads /\ f \in DOMAIN active_downloads')
            => active_downloads'[f].progress >= active_downloads[f].progress
      ]_vars

\* C5: a record that is not completed has progress at most 90, and a completed
\* record has progress 100, in every state.
C5_CompletedIffProgress100 ==
    \A f \in DOMAIN active_downloads :
        /\ Status(f) # "completed" => Progress(f) <= 90
        /\ Status(f) = "completed" => Progress(f) = 100

\* C6: a record that has status completed is eventually removed from the dict.
C6_CompletedJobIsReaped ==
    \A f \in FileIds :
        (Present(f) /\ Status(f) = "completed") ~> ~Present(f)

C6_Witness ==
    \E w \in Workers :
        /\ worker[w].pc = "done"
        /\ cleanup[w] = "done"
        /\ ~Present(worker[w].fid)
        /\ \A v \in Workers : v # w => worker[v].fid # worker[w].fid

\* C7: a record with status error stays in the dict, with status error, for
\* ever.
C7_ErrorJobStays ==
    [][ \A f \in FileIds :
          (f \in DOMAIN active_downloads /\ active_downloads[f].status = "error")
            => /\ f \in DOMAIN active_downloads'
               /\ active_downloads'[f].status = "error"
      ]_vars

\* C8: a download thread that meets a failure (initiate_download, makedirs,
\* the GET, a chunk read, a write, or a KeyError on the record) goes to its
\* handler, which leaves the record of its id in status error with the text
\* of the failure and ends the thread; a thread ends in no other way than
\* after writing completed or error; and no record is left in status
\* downloading without a running thread for its id.
C8_FailureBecomesErrorJob ==
    /\ [](\A f \in DOMAIN active_downloads :
            Status(f) = "downloading" => ActiveWorkersOf(f) # {})
    /\ [][ \A w \in Workers :
             /\ (worker[w].pc = "except" /\ worker'[w].pc # "except")
                   => /\ worker'[w].pc = "failed"
                      /\ worker[w].err \in FailureTexts
                      /\ worker[w].fid \in DOMAIN active_downloads'
                      /\ active_downloads'[worker[w].fid]
                            = ErrorJob(worker[w].err)
             /\ (Active(w) /\ ~Active(w)')
                   => worker'[w].wrote \in {"completed", "error"}
         ]_vars

C8_Witness ==
    \E w \in Workers :
        /\ worker[w].pc = "failed"
        /\ Present(worker[w].fid)
        /\ active_downloads[worker[w].fid] = ErrorJob("disk write failed")

\* C9: the status of a record changes only from downloading to completed or
\* from downloading to error.
C9_TerminalStatuses ==
    [][ \A f \in FileIds :
          ( /\ f \in DOMAIN active_downloads
            /\ f \in DOMAIN active_downloads'
            /\ active_downloads'[f].status # active_downloads[f].status )
          => /\ active_downloads[f].status = "downloading"
             /\ active_downloads'[f].status \in {"completed", "error"}
      ]_vars

LoginReturned == call.op = "login" /\ call.pc = "returned"

\* C11: in every state of the session the token is non-empty exactly when
\* the session is marked authenticated (logged_in).
C11_TokenIffLoggedIn == (token # "") <=> logged_in

\* C12: a search called before any login has succeeded fails with the
\* not-logged-in error without sending a request, and a search called after
\* a login call has returned success is never refused with that error.
C12_SearchRefusedIffNeverLoggedIn ==
    (call.op = "search" /\ call.pc # "idle") =>
        /\ ~call.logged_once =>
              /\ call.result = "error"
              /\ call.error = NotLoggedInText
              /\ call.requests = 0
        /\ call.logged_once => call.error # NotLoggedInText

\* C13, as stated: a login call that fails while the session is logged in
\* clears the token and leaves the session logged out.
C13_FailedReloginClearsToken ==
    (LoginReturned /\ call.result = "error" /\ call.was[1]) =>
        (token = "" /\ ~logged_in)

\* C13, amended: a login call that fails while the session is logged in
\* leaves logged_in set and the stored token as it was.
C13_FailedReloginKeepsSession ==
    (LoginReturned /\ call.result = "error" /\ call.was[1]) =>
        (logged_in /\ token = call.was[2])

C13_Witness ==
    /\ LoginReturned /\ call.result = "error"
    /\ call.was = <<TRUE, "wst">>
    /\ call.login_requests = 1
    /\ logged_in /\ token = "wst"

\* C19: login sets logged_in and stores a token only when the salt request
\* and then the login request were answered OK (with a salt, with a token
\* element); after a failed salt request no login request is sent; on every
\* other path login raises and leaves logged_in and token as they were.
C19_LoginWritesOnlyOnSuccess ==
    /\ [](LoginReturned =>
            IF call.answers = <<"ok", "ok">>
            THEN call.result = "ok" /\ logged_in
            ELSE /\ call.result = "error"
                 /\ <<logged_in, token>> = call.was)
    /\ []((call.op = "login" /\ call.answers # <<>>
              /\ call.answers[1] # "ok") =>
            (call.login_requests = 0 /\ call.pc = "returned"))
    /\ [][(<<logged_in, token>>' # <<logged_in, token>>) =>
            /\ call.op = "login" /\ call.pc = "post_login"
            /\ call.answers = <<"ok">>
            /\ call'.answers = <<"ok", "ok">>
            /\ logged_in']_vars

C19_Witness ==
    /\ LoginReturned /\ call.result = "error"
    /\ call.answers = <<"ok", "no_token">>
    /\ call.was = <<FALSE, "">>
    /\ ~logged_in /\ token = ""

\* ------------------------------------------- claims on the pure functions
\* C17: for every username, password and salt, hash_password returns as
\* password hash the SHA1 hex digest of md5_crypt(password, salt) and as
\* digest the MD5 hex digest of username + ":Webshare:" + password hash.
C17_HashPasswordComposition ==
    (pure.fn = "hash_password" /\ pure.applied) =>
        LET username == pure.arg[1]
            password == pure.arg[2]
            salt == pure.arg[3]
        IN  /\ pure.result[1] = sha1_hexdigest(md5_crypt(password, salt))
            /\ pure.result[2] =
                  md5_hexdigest(username \o ":Webshare:" \o pure.result[1])

C17_Witness ==
    /\ pure.fn = "hash_password" /\ pure.applied
    /\ pure.arg[1] = "bob" /\ pure.arg[2] = "pw2"
    /\ Len(pure.result) = 2

\* 1024^i as a size
Power(i) == [k \in 1..(i + 1) |-> IF k = i + 1 THEN 1 ELSE 0]

\* C18: _format_file_size returns "0 B" for 0, and for a size of 1 or more
\* the unit of index i, the largest i <= 4 with 1024^i <= size.
C18_UnitIsLargestPowerAtMostSize ==
    (pure.fn = "format_file_size" /\ pure.applied) =>
        IF pure.arg = <<0>>
        THEN pure.result =
                [ whole |-> <<0>>, fraction |-> <<>>, decimals |-> 0,
                  unit |-> "B" ]
        ELSE \E i \in 0..4 :
                /\ pure.result.unit = size_names[i + 1]
                /\ AtLeast(pure.arg, Power(i))
                /\ i < 4 => ~AtLeast(pure.arg, Power(i + 1))

\* 1024^5 is printed in TB
C18_Witness ==
    /\ pure.fn = "format_file_size" /\ pure.applied
    /\ pure.arg = Power(5)
    /\ pure.result.unit = "TB"

\* -------------------------------------------- claims on polls and chunks
\* C15: a progress poll answers with the job record or with 404 (not
\* found), never with an error, whatever the download and cleanup threads
\* do between its steps.
C15_PollAnswersJobOrNotFound ==
    [][\A r \in Reqs :
        (req[r].pc = "read" /\ req'[r].pc = "returned") =>
            req'[r].resp = "job"]_vars

\* C20: a chunk read while total_size > 0 leaves the recorded progress at
\* min(90, 10 + floor(80 * downloaded_size / total_size)), between 10 and 90
\* however many chunks arrive; a chunk read while total_size = 0 leaves the
\* record as it was (at the 10 of line 137).
C20_ChunkProgress ==
    [][\A w \in Workers :
        LET f == worker[w].fid
            total == worker[w].total_size
            downloaded == worker'[w].downloaded_size
            percent == 10 + ((80 * downloaded) \div total)
        IN  ( /\ worker[w].pc = "stream"
              /\ downloaded = worker[w].downloaded_size + 1
              /\ worker'[w].pc = "stream" ) =>
                IF total > 0
                THEN /\ active_downloads'[f].progress =
                            (IF percent < 90 THEN percent ELSE 90)
                     /\ active_downloads'[f].progress \in 10..90
                ELSE active_downloads' = active_downloads]_vars

\* more chunks than announced: the progress stands at the cap
C20_Witness ==
    /\ worker[1].pc = "stream"
    /\ worker[1].total_size = 3
    /\ worker[1].downloaded_size = 5
    /\ active_downloads["a"].progress = 90

\* --------------------------------------------- claims on the file system
\* C14: a download thread that calls initiate_download while the session is
\* not logged in is refused with the not-logged-in error before any request
\* is sent, writes the error record of its id and stops; it has not created
\* the directory, sent the GET, opened the stream or written a file.
C14_RefusedThreadDoesNothing ==
    /\ [](\A w \in Workers :
            effects[w].refused =>
                /\ effects[w].did = {}
                /\ worker[w].pc \in {"except", "failed"}
                /\ worker[w].pc = "except" =>
                        worker[w].err = NotLoggedInText
                /\ worker[w].pc = "failed" => worker[w].wrote = "error")
    /\ [][\A w \in Workers :
            ( /\ worker[w].pc = "resolve"
              /\ worker'[w].pc # "resolve"
              /\ ~logged_in \/ token = "" ) =>
                    /\ effects'[w].refused
                    /\ files'.length = files.length]_vars
    /\ [][\A w \in Workers :
            ( /\ effects[w].refused
              /\ worker[w].pc = "except"
              /\ worker'[w].pc = "failed" ) =>
                    /\ active_downloads'[worker[w].fid]
                            = ErrorJob(NotLoggedInText)
                    /\ files'.length = files.length]_vars

C14_Witness ==
    \E w \in Workers :
        /\ effects[w].refused
        /\ worker[w].pc = "failed"
        /\ Present(worker[w].fid)
        /\ active_downloads[worker[w].fid] = ErrorJob(NotLoggedInText)
        /\ files.length = << >>

\* C16: the file at the filePath of a completed record that has its
\* finalSize is as long as finalSize says.
C16_CompletedFileHasFinalSize ==
    \A f \in FileIds :
        ( /\ Present(f)
          /\ active_downloads[f].status = "completed"
          /\ active_downloads[f].finalSize # NoValue
          /\ files.path[f] # "" ) =>
                /\ files.path[f] \in DOMAIN files.length
                /\ files.length[files.path[f]] = active_downloads[f].finalSize

\* ------------------------------------------------ claims on ownership
\* The entry of id f, as a sequence: empty when the dict has none.
Entry(f) == IF Present(f) THEN <<active_downloads[f]>> ELSE <<>>

\* Thread w, or the cleanup thread it started, takes the step.
Steps(w) == worker'[w] # worker[w] \/ cleanup'[w] # cleanup[w]

\* C21: a download thread (with its cleanup thread) creates, changes and
\* removes the entry of its own id only, and never an entry that another
\* running thread has written.
C21_EntryWrittenByOwnerOnly ==
    [][\A w \in Workers, f \in FileIds :
        (Steps(w) /\ Entry(f)' # Entry(f)) =>
            /\ f = worker[w].fid
            /\ \A v \in Workers \ {w} :
                  ~( /\ worker[v].fid = f
                     /\ Active(v)
                     /\ worker[v].wrote # "none" )]_vars

\* ------------------------------------------------- claims on the requests
\* C22: a login call sends at most one salt request and at most one login
\* request, a search or initiate_download call at most one request; a
\* request that is not answered OK ends the call at once with an error.
C22_NoRetry ==
    /\ call.salt_requests <= 1
    /\ call.login_requests <= 1
    /\ call.requests <= 1
    /\ Len(call.answers)
            = call.salt_requests + call.login_requests + call.requests
    /\ \A k \in 1..Len(call.answers) :
            call.answers[k] # "ok" =>
                /\ k = Len(call.answers)
                /\ call.pc = "returned"
                /\ call.result = "error"

C22_Witness ==
    /\ call.op = "initiate_download" /\ call.pc = "returned"
    /\ call.answers = <<"malformed">>
    /\ call.requests = 1
    /\ call.result = "error"

\* ------------------------------------------------- claims on the cleanup
\* C23: an entry that leaves the dict is the record of a completed job; a
\* record with status downloading is never removed.
C23_OnlyCompletedIsRemoved ==
    [][\A f \in FileIds :
        (Present(f) /\ Entry(f)' = <<>>) =>
            active_downloads[f].status = "completed"]_vars

\* ------------------------------------------------ claims on the size field
\* the value of a text of decimal digits, by position
RECURSIVE PositionalValue(_)
PositionalValue(s) ==
    IF Len(s) = 0 THEN 0
    ELSE 10 * PositionalValue(SubSeq(s, 1, Len(s) - 1)) + decimal(s[Len(s)])

====
